---- MODULE Spec2Model ----
(***************************************************************************)
(* BloomGarden (src/app/app.py): a savings ledger kept in an SQLite file,  *)
(* a one-row "goal reached" flag, and the four handlers of the window      *)
(* (add, subtract, reset, undo) that each end by running refresh_ui.       *)
(*                                                                         *)
(* State that is modelled: the two tables of the database file, the        *)
(* AUTOINCREMENT counter of the savings table, and the two fields of the   *)
(* window that the handlers read back (last_action_id,                     *)
(* last_progress_value).  Widgets, animations and the enabled state of the *)
(* buttons are not modelled: the handlers are taken as callable in every   *)
(* state (refresh_ui returns before it touches the buttons when the GIF    *)
(* does not load, so a click on "Add" is possible whatever the total).     *)
(* Amounts stay far below 2^63, the width of an SQLite INTEGER.            *)
(***************************************************************************)
EXTENDS Integers, Sequences, FiniteSets, TLC

\* ------------------------------------------------------------------ bounds
\* Largest row id the model lets the savings table hand out.
MaxId == 4
\* The counter of play_celebration calls saturates here.
MaxCelebrations == 2
\* get_plant_stage is probed on -MaxStageTotal .. MaxStageTotal.
MaxStageTotal == 650

\* ------------------------------------------------------- program constants
SAVINGS_GOAL == 500

\* self.last_action_id = None (row ids of SQLite start at 1)
None == 0

\* Texts the input box can hold, as sequences of characters.
Texts ==
    { <<>>,
      <<" ">>,
      <<"a", "b">>,
      <<"0">>,
      <<"-", "1", "0", "0">>,
      <<"1", "0", "0">>,
      <<" ", "2", "5", "0", " ">>,
      <<"+", "5", "0", "0">> }

\* Buttons of the reset confirmation dialog.
Buttons == {"Yes", "No"}

VARIABLES
    savings,              \* table savings: set of rows [id, amount]
    sqlite_sequence,      \* AUTOINCREMENT: largest row id ever handed out
    app_state,            \* table app_state: set of rows [key, value]
    last_action_id,       \* self.last_action_id
    last_progress_value,  \* self.last_progress_value
    celebrations,         \* number of play_celebration calls so far
    last_call,            \* the handler that ran last, its input and warning
    undo_slot,            \* what emptied or filled the undo slot last
    total_arg,            \* argument of the get_plant_stage probe
    stage_ret             \* result of the get_plant_stage probe

vars == <<savings, sqlite_sequence, app_state, last_action_id,
          last_progress_value, celebrations, last_call, undo_slot,
          total_arg, stage_ret>>

program == <<savings, sqlite_sequence, app_state, last_action_id,
             last_progress_value, celebrations, last_call, undo_slot>>

probe == <<total_arg, stage_ret>>

\* ----------------------------------------------------------------- helpers
min(a, b) == IF a < b THEN a ELSE b

Digits == {"0", "1", "2", "3", "4", "5", "6", "7", "8", "9"}

DigitVal(c) ==
    CASE c = "0" -> 0 [] c = "1" -> 1 [] c = "2" -> 2 [] c = "3" -> 3
      [] c = "4" -> 4 [] c = "5" -> 5 [] c = "6" -> 6 [] c = "7" -> 7
      [] c = "8" -> 8 [] c = "9" -> 9

\* str.strip(): drop leading and trailing blanks.
RECURSIVE lstrip(_)
lstrip(s) == IF s # <<>> /\ Head(s) = " " THEN lstrip(Tail(s)) ELSE s

RECURSIVE rstrip(_)
rstrip(s) ==
    IF s # <<>> /\ s[Len(s)] = " "
    THEN rstrip(SubSeq(s, 1, Len(s) - 1))
    ELSE s

strip(s) == rstrip(lstrip(s))

\* int(text): an optional sign and at least one digit, else ValueError.
Unsigned(s) == IF s # <<>> /\ Head(s) \in {"+", "-"} THEN Tail(s) ELSE s

ValueError(s) ==
    LET body == Unsigned(strip(s))
    IN  body = <<>> \/ \E i \in 1..Len(body) : body[i] \notin Digits

RECURSIVE DecimalValue(_)
DecimalValue(ds) ==
    IF ds = <<>> THEN 0
    ELSE 10 * DecimalValue(SubSeq(ds, 1, Len(ds) - 1)) + DigitVal(ds[Len(ds)])

int(s) ==
    LET t == strip(s)
        magnitude == DecimalValue(Unsigned(t))
    IN  IF t # <<>> /\ Head(t) = "-" THEN 0 - magnitude ELSE magnitude

\* ---------------------------------------------------------------- database
\* SUM(amount): NULL over no rows, else the sum of the column.
RECURSIVE SumAmounts(_)
SumAmounts(rows) ==
    IF rows = {} THEN 0
    ELSE LET r == CHOOSE x \in rows : TRUE
         IN  r.amount + SumAmounts(rows \ {r})

SUM(rows) ==
    IF rows = {} THEN [null |-> TRUE, val |-> 0]
    ELSE [null |-> FALSE, val |-> SumAmounts(rows)]

COALESCE(v, default) == IF v.null THEN default ELSE v.val

\* SUM(DISTINCT amount) in place of SUM(amount).
get_total_savings_distinct(rows) ==
    LET amounts == {r.amount : r \in rows}
    IN  COALESCE(SUM({[id |-> a, amount |-> a] : a \in amounts}), 0)

get_total_savings(rows) == COALESCE(SUM(rows), 0)

is_goal_reached(state) ==
    \E row \in state : row.key = "goal_reached" /\ row.value = "true"

\* INSERT OR REPLACE: the row of the key is replaced.
set_goal_reached(state) ==
    {row \in state : row.key # "goal_reached"}
        \cup {[key |-> "goal_reached", value |-> "true"]}

\* INTEGER PRIMARY KEY without AUTOINCREMENT: one more than the largest id
\* now in the table.
NextRowId_rowid(rows, seq) ==
    LET ids == {r.id : r \in rows} \cup {0}
    IN  (CHOOSE m \in ids : \A i \in ids : i <= m) + 1

\* INTEGER PRIMARY KEY AUTOINCREMENT: one more than the largest id ever used.
NextRowId(rows, seq) ==
    LET ids == {r.id : r \in rows} \cup {seq}
    IN  (CHOOSE m \in ids : \A i \in ids : i <= m) + 1

\* add_savings: the table after the INSERT; lastrowid is NextRowId.
add_savings(rows, seq, amount) ==
    rows \cup {[id |-> NextRowId(rows, seq), amount |-> amount]}

delete_saving_row(rows, row_id) == {r \in rows : r.id # row_id}

\* DELETE FROM savings
delete_all(rows) == {}

\* ------------------------------------------------------------ plant stage
\* progress = total / SAVINGS_GOAL is kept as an exact fraction; 0.25, 0.5,
\* 0.75 and 1.0 are exact floats and float division rounds monotonically,
\* so the float comparisons agree with the exact ones.
Progress(total) ==
    IF SAVINGS_GOAL > 0 THEN [num |-> total, den |-> SAVINGS_GOAL]
    ELSE [num |-> 0, den |-> 1]

\* p < n/d
Less(p, n, d) == p.num * d < n * p.den

\* get_plant_stage with <= in place of <.
get_plant_stage_inclusive(total) ==
    LET progress == Progress(total)
    IN  IF ~Less([num |-> 1, den |-> 4], progress.num, progress.den)
        THEN "seed"
        ELSE IF ~Less([num |-> 1, den |-> 2], progress.num, progress.den)
        THEN "small"
        ELSE IF ~Less([num |-> 3, den |-> 4], progress.num, progress.den)
        THEN "growing"
        ELSE IF ~Less([num |-> 1, den |-> 1], progress.num, progress.den)
        THEN "almost"
        ELSE "bloom"

get_plant_stage(total) ==
    LET progress == Progress(total)
    IN  IF Less(progress, 1, 4) THEN "seed"
        ELSE IF Less(progress, 1, 2) THEN "small"
        ELSE IF Less(progress, 3, 4) THEN "growing"
        ELSE IF Less(progress, 1, 1) THEN "almost"
        ELSE "bloom"

\* ---------------------------------------------------------------- handlers
Call(op, text, clicked, title) ==
    [op |-> op, text |-> text, clicked |-> clicked, title |-> title,
     before |-> get_total_savings(savings)]

\* The rejection path also forgets the undo id.
Rejected_clears_undo(op, text, title) ==
    /\ last_call' = Call(op, text, "", title)
    /\ last_action_id' = None
    /\ UNCHANGED <<savings, sqlite_sequence, app_state,
                   last_progress_value, celebrations, undo_slot>>

\* show_warning and return: nothing but the dialog happens.
Rejected(op, text, title) ==
    /\ last_call' = Call(op, text, "", title)
    /\ UNCHANGED <<savings, sqlite_sequence, app_state, last_action_id,
                   last_progress_value, celebrations, undo_slot>>

\* refresh_ui without the test of the stored flag.
refresh_ui_refires(rows) ==
    LET total == get_total_savings(rows)
        new_value == min(total, SAVINGS_GOAL)
    IN  /\ IF total >= SAVINGS_GOAL
           THEN /\ app_state' = set_goal_reached(app_state)
                /\ celebrations' = min(celebrations + 1, MaxCelebrations)
           ELSE UNCHANGED <<app_state, celebrations>>
        /\ last_progress_value' = new_value

\* refresh_ui with total > SAVINGS_GOAL in place of total >= SAVINGS_GOAL.
refresh_ui_strict(rows) ==
    LET total == get_total_savings(rows)
        new_value == min(total, SAVINGS_GOAL)
        goal_already_reached == is_goal_reached(app_state)
    IN  /\ IF total > SAVINGS_GOAL /\ ~goal_already_reached
           THEN /\ app_state' = set_goal_reached(app_state)
                /\ celebrations' = min(celebrations + 1, MaxCelebrations)
           ELSE UNCHANGED <<app_state, celebrations>>
        /\ last_progress_value' = new_value

\* refresh_ui over the table as the handler left it.
refresh_ui(rows) ==
    LET total == get_total_savings(rows)
        new_value == min(total, SAVINGS_GOAL)
        goal_already_reached == is_goal_reached(app_state)
    IN  /\ IF total >= SAVINGS_GOAL /\ ~goal_already_reached
           THEN /\ app_state' = set_goal_reached(app_state)
                /\ celebrations' = min(celebrations + 1, MaxCelebrations)
           ELSE UNCHANGED <<app_state, celebrations>>
        /\ last_progress_value' = new_value

Init ==
    /\ savings = {}
    /\ sqlite_sequence = 0
    /\ app_state = {}
    /\ last_action_id = None
    /\ last_progress_value = 0
    /\ celebrations = 0
    /\ last_call = [op |-> "startup", text |-> <<>>, clicked |-> "",
                    title |-> "", before |-> 0]
    /\ undo_slot = "initial"
    /\ total_arg = 0
    /\ stage_ret = ""

\* The window is closed and the program started again on the same file.
Startup ==
    /\ last_action_id' = None
    /\ undo_slot' = "initial"
    /\ last_call' = Call("startup", <<>>, "", "")
    /\ refresh_ui(savings)
    /\ UNCHANGED <<savings, sqlite_sequence>>
    /\ UNCHANGED probe

\* handle_add_savings without the test of the goal.
handle_add_savings_ungated(input) ==
    LET text == strip(input)
    IN  /\ IF text = <<>> THEN Rejected("add", input, "Oops!")
           ELSE IF ValueError(text) THEN Rejected("add", input, "Oops!")
           ELSE IF int(text) <= 0 THEN Rejected("add", input, "Oops!")
           ELSE /\ sqlite_sequence < MaxId
                /\ savings' = add_savings(savings, sqlite_sequence, int(text))
                /\ sqlite_sequence' = NextRowId(savings, sqlite_sequence)
                /\ last_action_id' = NextRowId(savings, sqlite_sequence)
                /\ undo_slot' = "action"
                /\ last_call' = Call("add", input, "", "")
                /\ refresh_ui(savings')
        /\ UNCHANGED probe

handle_add_savings(input) ==
    LET text == strip(input)
    IN  /\ IF text = <<>> THEN Rejected("add", input, "Oops!")
           ELSE IF ValueError(text) THEN Rejected("add", input, "Oops!")
           ELSE IF int(text) <= 0 THEN Rejected("add", input, "Oops!")
           ELSE IF get_total_savings(savings) >= SAVINGS_GOAL
                THEN Rejected("add", input, "Goal already reached")
           ELSE /\ sqlite_sequence < MaxId
                /\ savings' = add_savings(savings, sqlite_sequence, int(text))
                /\ sqlite_sequence' = NextRowId(savings, sqlite_sequence)
                /\ last_action_id' = NextRowId(savings, sqlite_sequence)
                /\ undo_slot' = "action"
                /\ last_call' = Call("add", input, "", "")
                /\ refresh_ui(savings')
        /\ UNCHANGED probe

\* handle_subtract_savings without the test against the current total.
handle_subtract_savings_unchecked(input) ==
    LET text == strip(input)
    IN  /\ IF text = <<>> THEN Rejected("subtract", input, "Oops!")
           ELSE IF ValueError(text) THEN Rejected("subtract", input, "Oops!")
           ELSE IF int(text) <= 0 THEN Rejected("subtract", input, "Oops!")
           ELSE /\ sqlite_sequence < MaxId
                /\ savings' = add_savings(savings, sqlite_sequence,
                                          0 - int(text))
                /\ sqlite_sequence' = NextRowId(savings, sqlite_sequence)
                /\ last_action_id' = NextRowId(savings, sqlite_sequence)
                /\ undo_slot' = "action"
                /\ last_call' = Call("subtract", input, "", "")
                /\ refresh_ui(savings')
        /\ UNCHANGED probe

\* handle_subtract_savings with the test against the total off by the goal.
handle_subtract_savings_lenient(input) ==
    LET text == strip(input)
        current_total == get_total_savings(savings)
    IN  /\ IF text = <<>> THEN Rejected("subtract", input, "Oops!")
           ELSE IF ValueError(text) THEN Rejected("subtract", input, "Oops!")
           ELSE IF int(text) <= 0 THEN Rejected("subtract", input, "Oops!")
           ELSE IF int(text) > current_total + SAVINGS_GOAL
                THEN Rejected("subtract", input, "Not enough savings")
           ELSE /\ sqlite_sequence < MaxId
                /\ savings' = add_savings(savings, sqlite_sequence,
                                          0 - int(text))
                /\ sqlite_sequence' = NextRowId(savings, sqlite_sequence)
                /\ last_action_id' = NextRowId(savings, sqlite_sequence)
                /\ undo_slot' = "action"
                /\ last_call' = Call("subtract", input, "", "")
                /\ refresh_ui(savings')
        /\ UNCHANGED probe

handle_subtract_savings(input) ==
    LET text == strip(input)
        current_total == get_total_savings(savings)
    IN  /\ IF text = <<>> THEN Rejected("subtract", input, "Oops!")
           ELSE IF ValueError(text) THEN Rejected("subtract", input, "Oops!")
           ELSE IF int(text) <= 0 THEN Rejected("subtract", input, "Oops!")
           ELSE IF int(text) > current_total
                THEN Rejected("subtract", input, "Not enough savings")
           ELSE /\ sqlite_sequence < MaxId
                /\ savings' = add_savings(savings, sqlite_sequence,
                                          0 - int(text))
                /\ sqlite_sequence' = NextRowId(savings, sqlite_sequence)
                /\ last_action_id' = NextRowId(savings, sqlite_sequence)
                /\ undo_slot' = "action"
                /\ last_call' = Call("subtract", input, "", "")
                /\ refresh_ui(savings')
        /\ UNCHANGED probe

\* handle_reset_savings that also empties app_state.
handle_reset_savings_clears_flag(clicked) ==
    /\ last_call' = Call("reset", <<>>, clicked, "")
    /\ IF clicked = "Yes"
       THEN /\ savings' = delete_all(savings)
            /\ app_state' = {}
            /\ last_progress_value' = 0
            /\ UNCHANGED <<sqlite_sequence, last_action_id, undo_slot,
                           celebrations>>
       ELSE UNCHANGED <<savings, sqlite_sequence, app_state, last_action_id,
                        last_progress_value, celebrations, undo_slot>>
    /\ UNCHANGED probe

handle_reset_savings(clicked) ==
    /\ last_call' = Call("reset", <<>>, clicked, "")
    /\ IF clicked = "Yes"
       THEN /\ savings' = delete_all(savings)
            /\ refresh_ui(savings')
            /\ UNCHANGED <<sqlite_sequence, last_action_id, undo_slot>>
       ELSE UNCHANGED <<savings, sqlite_sequence, app_state, last_action_id,
                        last_progress_value, celebrations, undo_slot>>
    /\ UNCHANGED probe

\* handle_undo that leaves last_action_id set.
handle_undo_keeps_id ==
    /\ IF last_action_id = None
       THEN Rejected("undo", <<>>, "Nothing to undo")
       ELSE /\ savings' = delete_saving_row(savings, last_action_id)
            /\ undo_slot' = "undone"
            /\ last_call' = Call("undo", <<>>, "", "")
            /\ refresh_ui(savings')
            /\ UNCHANGED <<sqlite_sequence, last_action_id>>
    /\ UNCHANGED probe

handle_undo ==
    /\ IF last_action_id = None
       THEN Rejected("undo", <<>>, "Nothing to undo")
       ELSE /\ savings' = delete_saving_row(savings, last_action_id)
            /\ last_action_id' = None
            /\ undo_slot' = "undone"
            /\ last_call' = Call("undo", <<>>, "", "")
            /\ refresh_ui(savings')
            /\ UNCHANGED sqlite_sequence
    /\ UNCHANGED probe

Next ==
    \/ Startup
    \/ \E input \in Texts : handle_add_savings(input)
    \/ \E input \in Texts : handle_subtract_savings(input)
    \/ \E clicked \in Buttons : handle_reset_savings(clicked)
    \/ handle_undo

Spec == Init /\ [][Next]_vars

\* ------------------------------------------------- get_plant_stage, probed
Totals == (0 - MaxStageTotal)..MaxStageTotal

InitStage ==
    /\ savings = {}
    /\ sqlite_sequence = 0
    /\ app_state = {}
    /\ last_action_id = None
    /\ last_progress_value = 0
    /\ celebrations = 0
    /\ last_call = [op |-> "startup", text |-> <<>>, clicked |-> "",
                    title |-> "", before |-> 0]
    /\ undo_slot = "initial"
    /\ total_arg \in Totals
    /\ stage_ret = ""

CallStage ==
    /\ stage_ret = ""
    /\ stage_ret' = get_plant_stage(total_arg)
    /\ UNCHANGED total_arg
    /\ UNCHANGED program

NextStage == CallStage

SpecStage == InitStage /\ [][NextStage]_vars

\* ================================================================== claims

\* The sum of the ledger, row id by row id.
RECURSIVE SumUpTo(_, _)
SumUpTo(rows, n) ==
    IF n = 0 THEN 0
    ELSE SumUpTo(rows, n - 1)
         + (IF \E r \in rows : r.id = n
            THEN (CHOOSE r \in rows : r.id = n).amount
            ELSE 0)

\* C1: after any sequence of add, subtract, undo and reset operations,
\* get_total_savings() is the sum of the amounts of the entries now in the
\* ledger, and it is 0 when the ledger is empty.
C1_TotalIsLedgerSum ==
    /\ get_total_savings(savings) = SumUpTo(savings, sqlite_sequence)
    /\ savings = {} => get_total_savings(savings) = 0

\* An undo has just removed an entry and left deposits and a withdrawal.
C1_Witness ==
    /\ last_call.op = "undo"
    /\ last_call.title = ""
    /\ Cardinality(savings) >= 2
    /\ \E r \in savings : r.amount < 0
    /\ get_total_savings(savings) # last_call.before

\* C2: the "goal just reached" transition (set_goal_reached and
\* play_celebration) fires at most once: once the flag is set no operation
\* fires it again, whatever the total does afterwards.
C2_CelebratesAtMostOnce ==
    [][/\ is_goal_reached(app_state) => celebrations' = celebrations
       /\ celebrations' <= 1]_vars

\* 500 added, 100 withdrawn, 100 added again: the goal is met a second time.
C2_Witness ==
    /\ savings = {[id |-> 1, amount |-> 500], [id |-> 2, amount |-> -100],
                  [id |-> 3, amount |-> 100]}
    /\ is_goal_reached(app_state)
    /\ celebrations = 1
    /\ last_call.op = "add"
    /\ last_call.before < SAVINGS_GOAL

\* C3: in every reachable state the total savings is >= 0.
C3_TotalNeverNegative == get_total_savings(savings) >= 0

\* A withdrawal of the whole total has just been accepted.
C3_Witness ==
    /\ last_call.op = "subtract"
    /\ last_call.title = ""
    /\ last_call.before > 0
    /\ get_total_savings(savings) = 0

\* C4: a subtract request with amount > current total is always rejected as
\* insufficient funds: no entry is appended and the total is as before.
C4_OverdrawRejected ==
    [][(/\ last_call'.op = "subtract"
        /\ ~ValueError(last_call'.text)
        /\ int(last_call'.text) > get_total_savings(savings))
       => /\ last_call'.title = "Not enough savings"
          /\ savings' = savings
          /\ get_total_savings(savings') = get_total_savings(savings)]_vars

\* A withdrawal larger than a non-empty ledger's total was just rejected.
C4_Witness ==
    /\ last_call.op = "subtract"
    /\ last_call.title = "Not enough savings"
    /\ savings # {}
    /\ int(last_call.text) > get_total_savings(savings)

\* C5: an add request issued while total >= goal is always rejected and
\* appends no entry (with the goal-already-reached warning when the amount
\* is a positive whole number); an add request with a positive amount issued
\* while total < goal is accepted whatever the amount.
C5_AddGate ==
    [][last_call'.op = "add"
       => /\ get_total_savings(savings) >= SAVINGS_GOAL
             => /\ last_call'.title # ""
                /\ savings' = savings
                /\ (~ValueError(last_call'.text) /\ int(last_call'.text) > 0)
                      => last_call'.title = "Goal already reached"
          /\ (/\ get_total_savings(savings) < SAVINGS_GOAL
              /\ ~ValueError(last_call'.text)
              /\ int(last_call'.text) > 0)
             => /\ last_call'.title = ""
                /\ \E r \in savings' \ savings :
                      /\ r.amount = int(last_call'.text)
                      /\ savings' = savings \cup {r}]_vars

\* An add was rejected at an overshot goal, after one that overshot it.
C5_Witness ==
    /\ last_call.op = "add"
    /\ last_call.title = "Goal already reached"
    /\ get_total_savings(savings) > SAVINGS_GOAL

\* C6: undo immediately after a successful add or subtract restores the
\* total to its value before that add or subtract; a second undo with no
\* successful add/subtract in between is rejected as nothing-to-undo and
\* changes nothing.
C6_UndoRestores ==
    [][last_call'.op = "undo"
       => /\ (last_call.op \in {"add", "subtract"} /\ last_call.title = "")
             => /\ last_call'.title = ""
                /\ get_total_savings(savings') = last_call.before
          /\ undo_slot = "undone"
             => /\ last_call'.title = "Nothing to undo"
                /\ UNCHANGED <<savings, sqlite_sequence, app_state,
                               last_action_id, last_progress_value>>]_vars

\* A second undo in a row was rejected, entries still in the ledger.
C6_Witness ==
    /\ last_call.op = "undo"
    /\ last_call.title = "Nothing to undo"
    /\ undo_slot = "undone"
    /\ savings # {}

\* C7: whenever an undo id is tracked, undo deletes that single entry from
\* the ledger and clears the tracked id; it is rejected as nothing-to-undo
\* only in the initial state or after a prior undo; in every reachable
\* state, also after a confirmed reset.
C7_UndoDeletesTrackedEntry ==
    [][last_call'.op = "undo"
       => /\ last_action_id # None
             => /\ last_call'.title = ""
                /\ \E r \in savings :
                      /\ r.id = last_action_id
                      /\ savings' = savings \ {r}
                /\ last_action_id' = None
          /\ last_call'.title = "Nothing to undo"
             => undo_slot \in {"initial", "undone"}]_vars

\* C8: a confirmed reset removes every ledger entry, so the total read
\* afterwards is 0, and leaves the goal-reached flag as it was.
C8_ResetFrame ==
    [][(last_call'.op = "reset" /\ last_call'.clicked = "Yes")
       => /\ savings' = {}
          /\ get_total_savings(savings') = 0
          /\ is_goal_reached(app_state') = is_goal_reached(app_state)
          /\ app_state' = app_state]_vars

\* A reset of a ledger that had met the goal: the flag is still set.
C8_Witness ==
    /\ last_call.op = "reset"
    /\ last_call.clicked = "Yes"
    /\ last_call.before >= SAVINGS_GOAL
    /\ savings = {}
    /\ is_goal_reached(app_state)

\* C9: every rejected operation (add or subtract with amount <= 0, add when
\* the goal is met, subtract exceeding the total, undo with no tracked id)
\* leaves the ledger entries, the goal-reached flag and the tracked undo id
\* as they were.
C9_RejectedChangesNothing ==
    [][last_call'.title # ""
       => UNCHANGED <<savings, sqlite_sequence, app_state, last_action_id,
                      last_progress_value>>]_vars

\* A subtract of a non-positive amount was rejected with an undo id tracked.
C9_Witness ==
    /\ last_call.op = "subtract"
    /\ last_call.title = "Oops!"
    /\ ~ValueError(last_call.text)
    /\ int(last_call.text) <= 0
    /\ last_action_id # None
    /\ savings # {}

\* The stage the thresholds 125, 250, 375 and 500 give.
StageFor500(total) ==
    IF total < 125 THEN "seed"
    ELSE IF total < 250 THEN "small"
    ELSE IF total < 375 THEN "growing"
    ELSE IF total < 500 THEN "almost"
    ELSE "bloom"

Rank(stage) ==
    CASE stage = "seed" -> 0 [] stage = "small" -> 1 [] stage = "growing" -> 2
      [] stage = "almost" -> 3 [] stage = "bloom" -> 4

\* C10: for goal = 500, get_plant_stage(total) is seed below 125, small on
\* 125..249, growing on 250..374, almost on 375..499 and bloom from 500 on;
\* the stage never decreases as total grows, and a total exactly on a
\* threshold has the higher stage.
C10_StageThresholds ==
    stage_ret # ""
    => /\ SAVINGS_GOAL = 500
       /\ stage_ret = StageFor500(total_arg)
       /\ \A t \in Totals :
             t <= total_arg => Rank(get_plant_stage(t)) <= Rank(stage_ret)

\* The probe has returned small for the total exactly on the first threshold.
C10_Witness ==
    /\ total_arg = 125
    /\ stage_ret = "small"

\* C11: after every completed operation the goal-reached flag is true if and
\* only if the total has been >= goal at the end of some operation so far
\* (it starts unset on a total below the goal, and each operation leaves it
\* set exactly when it was set before or the total is now >= goal); so
\* total >= goal implies the flag is set, whichever operation raised it.
C11_FlagIffEverReached ==
    /\ [](get_total_savings(savings) >= SAVINGS_GOAL
            => is_goal_reached(app_state))
    /\ [][is_goal_reached(app_state')
            <=> \/ is_goal_reached(app_state)
                \/ get_total_savings(savings') >= SAVINGS_GOAL]_vars

\* The undo of a withdrawal has raised the total back to the goal.
C11_Witness ==
    /\ last_call.op = "undo"
    /\ last_call.title = ""
    /\ last_call.before < SAVINGS_GOAL
    /\ get_total_savings(savings) >= SAVINGS_GOAL
    /\ is_goal_reached(app_state)

\* C12: entry ids are strictly increasing in insertion order and never
\* reused, also after an undo or a reset deleted entries; so undo removes
\* only the entry of the most recent successful add/subtract, and an id
\* tracked since before a reset never deletes an entry created after it.
C12_IdsNeverReused ==
    [][/\ \A r \in savings' \ savings :
             /\ r.id > sqlite_sequence
             /\ \A q \in savings : q.id < r.id
             /\ sqlite_sequence' = r.id
       /\ sqlite_sequence' >= sqlite_sequence
       /\ \A r, q \in savings' : r.id = q.id => r = q
       /\ last_call'.op = "undo"
             => \A r \in savings \ savings' :
                   /\ r.id = sqlite_sequence
                   /\ r.id = last_action_id
                   /\ undo_slot = "action"]_vars

\* An add after two earlier entries were deleted took a fresh id.
C12_Witness ==
    /\ last_call.op = "add"
    /\ last_call.title = ""
    /\ Cardinality(savings) = 1
    /\ sqlite_sequence >= 3
    /\ \E r \in savings : r.id = sqlite_sequence /\ r.id = last_action_id

====
